---------------------------- MODULE Spec2Model ----------------------------
(***************************************************************************)
(* A model of the three batch report programs of the repository:          *)
(*   4.2/P1/source/computeStatistics.py  (descriptive statistics)         *)
(*   4.2/P2/source/convertNumbers.py     (base 2 / base 16 conversion)    *)
(*   4.2/P3/source/wordCount.py          (word frequencies)               *)
(*                                                                         *)
(* One run of one program is one behaviour: Init picks the program and    *)
(* the input file, the actions are the steps of that program's main().    *)
(*                                                                         *)
(* Text is a sequence of one-character strings, so that strip, split,     *)
(* int(), float(), lower() and to_base are computed, not assumed.         *)
(* A Python float is an exact rational [num, den] or a NaN; rounding,     *)
(* infinities and signed zero are not modelled.  The file is a text file  *)
(* whose lines all end in a newline; the files of P1 and P2 are valid     *)
(* UTF-8 (an undecodable one ends those programs before any line is read). *)
(***************************************************************************)
EXTENDS Integers, Sequences, FiniteSets

(***************************************************************************)
(* Bounds of the model.                                                    *)
(***************************************************************************)
\* The longest input file, in physical lines.
MaxLines == 4
\* to_base is also applied to every integer of -MaxAbs .. MaxAbs.
MaxAbs == 300

(***************************************************************************)
(* Characters.                                                             *)
(***************************************************************************)
\* The printable ASCII characters in code point order: 32 .. 95 here and
\* 97 .. 126 in AsciiLower (96, the grave accent, is left out).
AsciiUpper ==
  << " ", "!", "\"", "#", "$", "%", "&", "'", "(", ")", "*", "+", ",", "-",
     ".", "/", "0", "1", "2", "3", "4", "5", "6", "7", "8", "9", ":", ";",
     "<", "=", ">", "?", "@", "A", "B", "C", "D", "E", "F", "G", "H", "I",
     "J", "K", "L", "M", "N", "O", "P", "Q", "R", "S", "T", "U", "V", "W",
     "X", "Y", "Z", "[", "\\", "]", "^", "_" >>

AsciiLower ==
  << "a", "b", "c", "d", "e", "f", "g", "h", "i", "j", "k", "l", "m", "n",
     "o", "p", "q", "r", "s", "t", "u", "v", "w", "x", "y", "z", "{", "|",
     "}", "~" >>

\* The code point of every character of the model, worked out once.
CodePoints ==
  [c \in {"\t", "\n", "\r"} \cup {AsciiUpper[k] : k \in 1..Len(AsciiUpper)}
           \cup {AsciiLower[k] : k \in 1..Len(AsciiLower)} |->
     CASE c = "\t" -> 9
       [] c = "\n" -> 10
       [] c = "\r" -> 13
       [] \E k \in 1..Len(AsciiLower) : AsciiLower[k] = c ->
            96 + (CHOOSE k \in 1..Len(AsciiLower) : AsciiLower[k] = c)
       [] OTHER -> 31 + (CHOOSE k \in 1..Len(AsciiUpper) : AsciiUpper[k] = c)]

\* ord(c): the code point of a character.
Ord(c) == CodePoints[c]

\* chr(n) for a printable ASCII code point.
Chr(n) == IF n >= 97 THEN AsciiLower[n - 96] ELSE AsciiUpper[n - 31]

\* The characters str.strip() without an argument removes.
Whitespace == {" ", "\t", "\n", "\r"}

IsDigit(c) == c \in {"0", "1", "2", "3", "4", "5", "6", "7", "8", "9"}

DigitVal(c) == Ord(c) - 48

\* str.lower() on one character.
LowerChar(c) ==
  IF c \notin Whitespace /\ Ord(c) >= 65 /\ Ord(c) <= 90 THEN Chr(Ord(c) + 32) ELSE c

\* str.lower().
Lower(s) == IF s = <<>> THEN <<>> ELSE [k \in 1..Len(s) |-> LowerChar(s[k])]

RECURSIVE LStrip(_, _)
\* s without its longest prefix of characters of chars.
LStrip(s, chars) ==
  IF s # <<>> /\ Head(s) \in chars THEN LStrip(Tail(s), chars) ELSE s

RECURSIVE RStrip(_, _)
\* s without its longest suffix of characters of chars.
RStrip(s, chars) ==
  IF s # <<>> /\ s[Len(s)] \in chars
    THEN RStrip(SubSeq(s, 1, Len(s) - 1), chars)
    ELSE s

\* str.strip(chars): both ends, repeatedly, nothing in the middle.
Strip(s, chars) == RStrip(LStrip(s, chars), chars)

RECURSIVE Concat(_)
\* "".join(parts).
Concat(parts) ==
  IF parts = <<>> THEN <<>> ELSE Head(parts) \o Concat(Tail(parts))

RECURSIVE SplitFrom(_, _, _)
\* The scan of str.split(): cur is the token being read, out the tokens read.
SplitFrom(s, cur, out) ==
  IF s = <<>>
    THEN IF cur = <<>> THEN out ELSE Append(out, cur)
    ELSE IF Head(s) \in Whitespace
      THEN SplitFrom(Tail(s), <<>>, IF cur = <<>> THEN out ELSE Append(out, cur))
      ELSE SplitFrom(Tail(s), Append(cur, Head(s)), out)

\* str.split() without an argument: the maximal runs of non-whitespace.
Split(s) == SplitFrom(s, <<>>, <<>>)

(***************************************************************************)
(* Numbers.                                                                *)
(***************************************************************************)
Abs(n) == IF n < 0 THEN -n ELSE n

RECURSIVE Gcd(_, _)
Gcd(a, b) == IF b = 0 THEN a ELSE Gcd(b, a % b)

\* A float object holding the exact value n/d (d # 0), in lowest terms.
Float(n, d) ==
  LET s == IF d < 0 THEN -1 ELSE 1
      g == Gcd(Abs(n), Abs(d))
  IN  [num |-> (s * n) \div g, den |-> (s * d) \div g, id |-> 0]

\* A NaN object. Two NaN objects made by two calls of float() are two
\* objects (id tells them apart); a NaN made by arithmetic has id 0.
NaN(id) == [num |-> 0, den |-> 0, id |-> id]

IsNaN(x) == x.den = 0

\* The float 0.0 and the conversion float(int).
Zero == Float(0, 1)
FromInt(n) == Float(n, 1)

\* a + b, a - b, a * b, a / b on floats; a NaN operand gives a NaN.
FAdd(a, b) ==
  IF IsNaN(a) \/ IsNaN(b) THEN NaN(0)
  ELSE Float(a.num * b.den + b.num * a.den, a.den * b.den)
FSub(a, b) ==
  IF IsNaN(a) \/ IsNaN(b) THEN NaN(0)
  ELSE Float(a.num * b.den - b.num * a.den, a.den * b.den)
FMul(a, b) ==
  IF IsNaN(a) \/ IsNaN(b) THEN NaN(0)
  ELSE Float(a.num * b.num, a.den * b.den)
\* b is not 0.0: the callers divide by a positive count.
FDiv(a, b) ==
  IF IsNaN(a) \/ IsNaN(b) THEN NaN(0)
  ELSE Float(a.num * b.den, a.den * b.num)

\* a < b on floats: false as soon as one operand is a NaN.
FLess(a, b) ==
  ~IsNaN(a) /\ ~IsNaN(b) /\ a.num * b.den < b.num * a.den

RECURSIVE DigitsValue(_, _)
\* The value of a run of decimal digits, most significant first.
DigitsValue(s, acc) ==
  IF s = <<>> THEN acc ELSE DigitsValue(Tail(s), 10 * acc + DigitVal(Head(s)))

AllDigits(s) == \A k \in 1..Len(s) : IsDigit(s[k])

RECURSIVE Pow(_, _)
Pow(b, e) == IF e = 0 THEN 1 ELSE b * Pow(b, e - 1)

\* text without one leading sign, and that sign.
Unsigned(text) ==
  IF text # <<>> /\ Head(text) \in {"+", "-"} THEN Tail(text) ELSE text
SignOf(text) == IF text # <<>> /\ Head(text) = "-" THEN -1 ELSE 1

\* int(text) on stripped text: [ok, val]; ok = FALSE stands for ValueError.
\* Literals: an optional sign and one or more decimal digits (underscores
\* and non-ASCII digits do not occur in the modelled files).
ParseInt(text) ==
  LET body == Unsigned(text)
  IN  IF body # <<>> /\ AllDigits(body)
        THEN [ok |-> TRUE, val |-> SignOf(text) * DigitsValue(body, 0)]
        ELSE [ok |-> FALSE, val |-> 0]

\* float(text) on stripped text at physical line id: [ok, val]; ok = FALSE
\* stands for ValueError.  Literals: an optional sign, then "nan" in any
\* case, or digits with at most one "." and a digit on one side of it
\* (exponents, "inf" and underscores do not occur in the modelled files).
ParseFloat(text, id) ==
  LET body == Unsigned(text)
      dots == {k \in 1..Len(body) : body[k] = "."}
      dot  == IF dots = {} THEN Len(body) + 1 ELSE CHOOSE k \in dots : TRUE
      ip   == SubSeq(body, 1, dot - 1)
      fp   == SubSeq(body, dot + 1, Len(body))
  IN  IF Lower(body) = <<"n", "a", "n">>
        THEN [ok |-> TRUE, val |-> NaN(id)]
      ELSE IF Cardinality(dots) <= 1 /\ AllDigits(ip) /\ AllDigits(fp)
              /\ Len(ip) + Len(fp) >= 1
        THEN [ok |-> TRUE,
              val |-> Float(SignOf(text) * DigitsValue(ip \o fp, 0),
                            Pow(10, Len(fp)))]
        ELSE [ok |-> FALSE, val |-> Zero]

(***************************************************************************)
(* Messages and report lines.  A Python f-string is kept as its template   *)
(* and the values put into it, in order.                                   *)
(***************************************************************************)
Line(text, args) == [text |-> text, args |-> args]

\* A line without placeholders.
Plain(text) == Line(text, <<>>)

\* The last line of every report (elapsed is in microseconds: the
\* {elapsed_seconds:.6f} of the source keeps six decimal places).
ElapsedLine(elapsed_seconds) ==
  Line("Elapsed time (seconds): {elapsed_seconds:.6f}", <<elapsed_seconds>>)

(***************************************************************************)
(* Dictionaries: a dict is a function from its keys to their values, and   *)
(* the empty dict is the empty function <<>>.  Two float keys are the same *)
(* key when they are the same object or compare equal: equality of the     *)
(* records that model them (each parsed NaN has an id of its own).         *)
(***************************************************************************)
\* dict.get(key, default).
DictGet(d, key, default) == IF key \in DOMAIN d THEN d[key] ELSE default

\* d[key] = value.
DictSet(d, key, value) ==
  [k \in (DOMAIN d) \cup {key} |-> IF k = key THEN value ELSE d[k]]

(***************************************************************************)
(* The state.                                                              *)
(***************************************************************************)
VARIABLES
  prog,           \* the program that runs
  pc,             \* where its main() is
  file,           \* the input file: its physical lines, each ending in "\n"
  decodable,      \* whether the file's bytes are valid UTF-8
  line_number,    \* enumerate(file, start=1): the lines consumed so far
  values,         \* numbers (P1) / values (P2): the accepted values
  errors,         \* errors (P1, P2) / messages (P3)
  elapsed,        \* elapsed / elapsed_seconds
  mean_value, median_value, modes, variance_value, std_value, \* P1 build_report
  freq,           \* the dict freq of mode (P1) and count_frequencies (P3)
  idx,            \* how many elements the running for loop has consumed
  tokens, words,  \* P3 read_words
  report,         \* the lines of the report, "\n".join(lines)
  exception       \* the exception that ended the run, "" if none

vars ==
  << prog, pc, file, decodable, line_number, values, errors, elapsed,
     mean_value, median_value, modes, variance_value, std_value, freq, idx,
     tokens, words, report, exception >>

\* What a local holds before it is assigned.
Unset == [num |-> 0, den |-> 0, id |-> -1]

(***************************************************************************)
(* Inputs.                                                                 *)
(***************************************************************************)
Programs == {"computeStatistics", "convertNumbers", "wordCount"}

\* The contents a physical line is drawn from, per program.
LineChoices(p) ==
  CASE p = "computeStatistics" ->
         { <<"3">>, <<" ", "1", "\t">>, <<"2", ".", "5">>, <<"n", "a", "n">>,
           <<>>, <<"b", "a", "d">> }
    [] p = "convertNumbers" ->
         { <<"0">>, <<"-", "2", "5", "5">>, <<" ", "2", "6", " ">>,
           <<"1", ".", "5">>, <<>>, <<"x", "1">> }
    [] p = "wordCount" ->
         { <<"H", "i", ",", " ", "h", "i", "!", "!">>, <<"-", "-", "-">>,
           <<"(", "?", ")", " ", "\t">>, <<"a", "-", "b", ".">>, <<>> }

\* The files of at most MaxLines lines, every line ending in "\n".
Files(p) ==
  UNION { [1..n -> {c \o <<"\n">> : c \in LineChoices(p)}] : n \in 0..MaxLines }

\* The first call of main(), after its checks of argv and of the path.
EntryPoint(p) ==
  CASE p = "computeStatistics" -> "parse_numbers"
    [] p = "convertNumbers" -> "parse_integers"
    [] p = "wordCount" -> "read_words"

\* perf_counter() differences, in microseconds.
ElapsedChoices == {12, 3456}

Init ==
  /\ prog \in Programs
  /\ file \in Files(prog)
  /\ decodable \in (IF prog = "wordCount" THEN BOOLEAN ELSE {TRUE})
  /\ pc = EntryPoint(prog)
  /\ line_number = 0
  /\ values = <<>>
  /\ errors = <<>>
  /\ elapsed = 0
  /\ mean_value = Unset
  /\ median_value = Unset
  /\ modes = <<>>
  /\ variance_value = Unset
  /\ std_value = [ok |-> TRUE, radicand |-> Unset]
  /\ freq = <<>>
  /\ idx = 0
  /\ tokens = <<>>
  /\ words = <<>>
  /\ report = <<>>
  /\ exception = ""

(***************************************************************************)
(* P1: computeStatistics.py                                                *)
(***************************************************************************)
\* parse_numbers_step with the except branch left empty: a line that is no
\* number is skipped without a message.
parse_numbers_step_silent(numbers, errs, n, raw_line) ==
  LET text == Strip(raw_line, Whitespace)
      r    == ParseFloat(text, n)
  IN  IF text = <<>>
        THEN [values |-> numbers,
              errors |-> Append(errs,
                 Line("Line {line_number}: empty line (skipped).", <<n>>))]
      ELSE IF r.ok
        THEN [values |-> Append(numbers, r.val), errors |-> errs]
        ELSE [values |-> numbers, errors |-> errs]

\* parse_numbers, one pass of the for loop on raw_line.
parse_numbers_step(numbers, errs, n, raw_line) ==
  LET text == Strip(raw_line, Whitespace)
      r    == ParseFloat(text, n)
  IN  IF text = <<>>
        THEN [values |-> numbers,
              errors |-> Append(errs,
                 Line("Line {line_number}: empty line (skipped).", <<n>>))]
      ELSE IF r.ok
        THEN [values |-> Append(numbers, r.val), errors |-> errs]
        ELSE [values |-> numbers,
              errors |-> Append(errs,
                 Line("Line {line_number}: invalid number '{text}' (skipped).",
                      <<n, text>>))]

RECURSIVE SumFrom(_, _)
\* total += value for every value, from total.
SumFrom(vals, total) ==
  IF vals = <<>> THEN total ELSE SumFrom(Tail(vals), FAdd(total, Head(vals)))

\* mean(values), for a non-empty list.
mean(vals) == FDiv(SumFrom(vals, Zero), FromInt(Len(vals)))

RECURSIVE RunEnd(_, _, _)
\* count_run of list.sort(): the last index of the run that starts at a[1],
\* k being the next index to look at.
RunEnd(a, k, descending) ==
  IF k > Len(a) THEN Len(a)
  ELSE IF descending = FLess(a[k], a[k - 1]) THEN RunEnd(a, k + 1, descending)
  ELSE k - 1

Reverse(a) == IF a = <<>> THEN <<>> ELSE [k \in 1..Len(a) |-> a[Len(a) + 1 - k]]

RECURSIVE InsertAt(_, _, _, _)
\* The binary search of binarysort: where pivot goes in the sorted a[1..m],
\* as the number of elements left of it.
InsertAt(a, pivot, l, r) ==
  IF l >= r THEN l
  ELSE LET p == l + ((r - l) \div 2)
       IN  IF FLess(pivot, a[p + 1]) THEN InsertAt(a, pivot, l, p)
           ELSE InsertAt(a, pivot, p + 1, r)

RECURSIVE BinarySort(_, _)
\* binarysort of list.sort(): a[1..m] is sorted, the rest is inserted.
BinarySort(a, m) ==
  IF m >= Len(a) THEN a
  ELSE LET pivot == a[m + 1]
           l == InsertAt(a, pivot, 0, m)
       IN  BinarySort(SubSeq(a, 1, l) \o <<pivot>> \o SubSeq(a, l + 1, m)
                        \o SubSeq(a, m + 2, Len(a)), m + 1)

\* sorted left out: the list as it came.
sorted_missing(a) == a

\* sorted(values) as CPython computes it for a list of fewer than 64
\* elements: the run at the start (reversed when strictly descending), then
\* binary insertion of the rest; only < is ever asked of two elements.
sorted(a) ==
  IF Len(a) < 2 THEN a
  ELSE LET descending == FLess(a[2], a[1])
           n == RunEnd(a, 3, descending)
           run == SubSeq(a, 1, n)
       IN  BinarySort((IF descending THEN Reverse(run) ELSE run)
                        \o SubSeq(a, n + 1, Len(a)), n)

\* median(values), for a non-empty list.
median(vals) ==
  LET sorted_values == sorted(vals)
      n == Len(sorted_values)
      mid == n \div 2
  IN  IF n % 2 = 1 THEN sorted_values[mid + 1]
      ELSE FDiv(FAdd(sorted_values[mid], sorted_values[mid + 1]), FromInt(2))

\* The call median(values) as the caller sees it: the result, and the
\* caller's list after the call (sorted() copies, the list is not touched).
median_call(vals) == [result |-> median(vals), values |-> vals]

\* mode, one pass of the first for loop: freq[value] = freq.get(value, 0) + 1.
mode_count_step(fr, value) == DictSet(fr, value, DictGet(fr, value, 0) + 1)

\* max(freq.values(), default=0).
MaxCount(fr) ==
  IF DOMAIN fr = {} THEN 0
  ELSE CHOOSE c \in {fr[k] : k \in DOMAIN fr} : \A k \in DOMAIN fr : fr[k] <= c

\* mode_select that keeps the last most frequent value of the input, not
\* the first.
mode_select_last(vals, fr) ==
  LET max_count == MaxCount(fr)
      hits == {k \in 1..Len(vals) : fr[vals[k]] = max_count}
  IN  IF max_count <= 1 \/ hits = {} THEN <<>>
      ELSE <<vals[CHOOSE k \in hits : \A h \in hits : k >= h]>>

\* mode, after the counting loop: the list it returns.
mode_select(vals, fr) ==
  LET max_count == MaxCount(fr)
      hits == {k \in 1..Len(vals) : fr[vals[k]] = max_count}
  IN  IF max_count <= 1 \/ hits = {} THEN <<>>
      ELSE <<vals[CHOOSE k \in hits : \A h \in hits : k <= h]>>

RECURSIVE SquaresFrom(_, _, _)
\* total += diff * diff for every value, from total.
SquaresFrom(vals, m, total) ==
  IF vals = <<>> THEN total
  ELSE LET diff == FSub(Head(vals), m)
       IN  SquaresFrom(Tail(vals), m, FAdd(total, FMul(diff, diff)))

\* population_variance that divides by the count, not by the count less one.
population_variance_by_count(vals, m) ==
  LET total == SquaresFrom(vals, m, Zero)
  IN  IF Len(vals) < 2 THEN Zero ELSE FDiv(total, FromInt(Len(vals)))

\* population_variance(values, mean_value).
population_variance(vals, m) ==
  LET total == SquaresFrom(vals, m, Zero)
  IN  IF Len(vals) < 2 THEN Zero ELSE FDiv(total, FromInt(Len(vals) - 1))

\* population_std_dev(variance_value): math.sqrt raises ValueError (ok =
\* FALSE) below zero, gives NaN for NaN, and else the non-negative root of
\* its argument, kept as that radicand.
population_std_dev(v) ==
  [ok |-> ~FLess(v, Zero), radicand |-> v]

\* build_report without its test for an empty list.
no_valid_data_unchecked(vals) == FALSE

\* build_report: "if not values".
no_valid_data(vals) == vals = <<>>

\* The optional block of a report: header, messages, blank line.
MessageBlock(header, msgs) ==
  IF msgs # <<>> THEN <<Plain(header)>> \o msgs \o <<Plain("")>> ELSE <<>>

\* build_report, the lines of the report of an empty list of values.
build_report_no_data(errs, elapsed_seconds) ==
  << Plain("No valid numeric data found. Cannot compute statistics."),
     Plain(""),
     Plain("Errors found while reading the file:") >>
  \o errs
  \o << Plain(""), ElapsedLine(elapsed_seconds) >>

\* build_report, the lines of the report of the statistics.
build_report_statistics(count, m, med, mds, std, var, errs, elapsed_seconds) ==
  << Plain("DESCRIPTIVE STATISTICS (POPULATION)"),
     Plain("---------------------------------"),
     Line("COUNT: {len(values)}", <<count>>),
     Line("MEAN: {mean_value}", <<m>>),
     Line("MEDIAN: {median_value}", <<med>>),
     IF mds # <<>> THEN Line("MODE: {', '.join(str(m) for m in modes)}", <<mds>>)
                   ELSE Plain("MODE: No mode."),
     Line("POPULATION STANDARD DEVIATION: {std_value}", <<std>>),
     Line("POPULATION VARIANCE: {variance_value}", <<var>>),
     Plain("") >>
  \o MessageBlock("Errors found while reading the file (execution continued):", errs)
  \o << ElapsedLine(elapsed_seconds) >>

\* What the steps of P1 leave alone.
StatsLocals == <<mean_value, median_value, modes, variance_value, std_value>>
WordLocals == <<tokens, words>>
Input == <<prog, file, decodable>>

\* parse_numbers: the body of the for loop, on the next physical line.
ParseNumbers ==
  /\ pc = "parse_numbers"
  /\ line_number < Len(file)
  /\ LET r == parse_numbers_step(values, errors, line_number + 1,
                                 file[line_number + 1])
     IN  /\ values' = r.values
         /\ errors' = r.errors
  /\ line_number' = line_number + 1
  /\ UNCHANGED <<Input, pc, elapsed, StatsLocals, freq, idx, WordLocals,
                 report, exception>>

\* parse_numbers returns; main takes the time and calls build_report.
MainStatistics ==
  /\ pc = "parse_numbers"
  /\ line_number = Len(file)
  /\ \E e \in ElapsedChoices : elapsed' = e
  /\ pc' = "build_report"
  /\ UNCHANGED <<Input, line_number, values, errors, StatsLocals, freq, idx,
                 WordLocals, report, exception>>

\* build_report with no values: the short report.
ReportNoData ==
  /\ prog = "computeStatistics"
  /\ pc = "build_report"
  /\ no_valid_data(values)
  /\ report' = build_report_no_data(errors, elapsed)
  /\ pc' = "done"
  /\ UNCHANGED <<Input, line_number, values, errors, elapsed, StatsLocals,
                 freq, idx, WordLocals, exception>>

\* build_report with values: mean_value = mean(values); len(values) = 0 there
\* is ZeroDivisionError, which nothing catches.
CallMean ==
  /\ prog = "computeStatistics"
  /\ pc = "build_report"
  /\ ~no_valid_data(values)
  /\ IF Len(values) = 0
       THEN /\ pc' = "crashed"
            /\ exception' = "ZeroDivisionError"
            /\ UNCHANGED mean_value
       ELSE /\ pc' = "median"
            /\ mean_value' = mean(values)
            /\ UNCHANGED exception
  /\ UNCHANGED <<Input, line_number, values, errors, elapsed, median_value,
                 modes, variance_value, std_value, freq, idx, WordLocals, report>>

\* median_value = median(values), then mode(values) starts on an empty dict.
CallMedian ==
  /\ pc = "median"
  /\ LET r == median_call(values)
     IN  /\ median_value' = r.result
         /\ values' = r.values
  /\ pc' = "mode"
  /\ freq' = <<>>
  /\ idx' = 0
  /\ UNCHANGED <<Input, line_number, errors, elapsed, mean_value, modes,
                 variance_value, std_value, WordLocals, report, exception>>

\* mode: the body of the counting loop, on the next value.
ModeCount ==
  /\ pc = "mode"
  /\ idx < Len(values)
  /\ freq' = mode_count_step(freq, values[idx + 1])
  /\ idx' = idx + 1
  /\ UNCHANGED <<Input, pc, line_number, values, errors, elapsed, StatsLocals,
                 WordLocals, report, exception>>

\* mode: the rest of it, after the counting loop.
ModeReturn ==
  /\ pc = "mode"
  /\ idx = Len(values)
  /\ modes' = mode_select(values, freq)
  /\ pc' = "variance"
  /\ UNCHANGED <<Input, line_number, values, errors, elapsed, mean_value,
                 median_value, variance_value, std_value, freq, idx, WordLocals,
                 report, exception>>

\* variance_value = population_variance(values, mean_value).
CallVariance ==
  /\ pc = "variance"
  /\ variance_value' = population_variance(values, mean_value)
  /\ pc' = "std_dev"
  /\ UNCHANGED <<Input, line_number, values, errors, elapsed, mean_value,
                 median_value, modes, std_value, freq, idx, WordLocals, report,
                 exception>>

\* std_value = population_std_dev(variance_value), then the lines of the
\* report; a ValueError of math.sqrt ends the run.
ReportStatistics ==
  /\ pc = "std_dev"
  /\ LET std == population_std_dev(variance_value)
     IN  IF std.ok
           THEN /\ std_value' = std
                /\ report' = build_report_statistics(Len(values), mean_value,
                                median_value, modes, std, variance_value,
                                errors, elapsed)
                /\ pc' = "done"
                /\ UNCHANGED exception
           ELSE /\ pc' = "crashed"
                /\ exception' = "ValueError"
                /\ UNCHANGED <<std_value, report>>
  /\ UNCHANGED <<Input, line_number, values, errors, elapsed, mean_value,
                 median_value, modes, variance_value, freq, idx, WordLocals>>

Statistics ==
  \/ ParseNumbers
  \/ MainStatistics
  \/ ReportNoData
  \/ CallMean
  \/ CallMedian
  \/ ModeCount
  \/ ModeReturn
  \/ CallVariance
  \/ ReportStatistics

(***************************************************************************)
(* P2: convertNumbers.py                                                   *)
(***************************************************************************)
HEX_DIGITS ==
  << "0", "1", "2", "3", "4", "5", "6", "7", "8", "9",
     "A", "B", "C", "D", "E", "F" >>

RECURSIVE StrDigits(_)
\* The decimal digits of n > 0, most significant first.
StrDigits(n) ==
  IF n = 0 THEN <<>> ELSE Append(StrDigits(n \div 10), Chr(48 + (n % 10)))

\* str(n) of an int.
Str(n) ==
  IF n = 0 THEN <<"0">>
  ELSE IF n < 0 THEN <<"-">> \o StrDigits(-n)
  ELSE StrDigits(n)

\* parse_integers_step under enumerate(file) without start=1: the lines are
\* counted from 0.
parse_integers_step_from_zero(vals, errs, n, raw_line) ==
  LET text == Strip(raw_line, Whitespace)
      r    == ParseInt(text)
  IN  IF text = <<>>
        THEN [values |-> vals,
              errors |-> Append(errs,
                 Line("Line {line_number}: empty line (skipped).", <<n - 1>>))]
      ELSE IF r.ok
        THEN [values |-> Append(vals, r.val), errors |-> errs]
        ELSE [values |-> vals,
              errors |-> Append(errs,
                 Line("Line {line_number}: invalid integer '{text}' (skipped).",
                      <<n - 1, text>>))]

\* parse_integers, one pass of the for loop on raw_line.
parse_integers_step(vals, errs, n, raw_line) ==
  LET text == Strip(raw_line, Whitespace)
      r    == ParseInt(text)
  IN  IF text = <<>>
        THEN [values |-> vals,
              errors |-> Append(errs,
                 Line("Line {line_number}: empty line (skipped).", <<n>>))]
      ELSE IF r.ok
        THEN [values |-> Append(vals, r.val), errors |-> errs]
        ELSE [values |-> vals,
              errors |-> Append(errs,
                 Line("Line {line_number}: invalid integer '{text}' (skipped).",
                      <<n, text>>))]

RECURSIVE DivideLoop(_, _, _)
\* to_base, the while loop: digits (a list of str), least significant first.
DivideLoop(n, base, digits) ==
  IF n > 0
    THEN LET remainder == n % base
         IN  DivideLoop(n \div base, base,
               IF base = 16 THEN Append(digits, <<HEX_DIGITS[remainder + 1]>>)
               ELSE Append(digits, Str(remainder)))
    ELSE digits

\* to_base without digits.reverse(): least significant digit first.
to_base_unreversed(number, base) ==
  IF number = 0 THEN <<"0">>
  ELSE LET is_negative == number < 0
           n == IF is_negative THEN -number ELSE number
           result == Concat(DivideLoop(n, base, <<>>))
       IN  IF is_negative THEN <<"-">> \o result ELSE result

\* to_base(number, base): the characters of the result.
to_base(number, base) ==
  IF number = 0 THEN <<"0">>
  ELSE LET is_negative == number < 0
           n == IF is_negative THEN -number ELSE number
           result == Concat(Reverse(DivideLoop(n, base, <<>>)))
       IN  IF is_negative THEN <<"-">> \o result ELSE result

\* build_report of P2: the lines of the report.
build_report_conversion(vals, errs, elapsed_seconds) ==
  << Plain("NUMBER CONVERSION RESULTS"),
     Plain("-------------------------"),
     Plain("FORMAT: DECIMAL -> BINARY | HEX"),
     Plain("") >>
  \o (IF vals = <<>> THEN <<>>
      ELSE [k \in 1..Len(vals) |->
              Line("{value} -> {binary} | {hexa}",
                   <<vals[k], to_base(vals[k], 2), to_base(vals[k], 16)>>)])
  \o << Plain("") >>
  \o MessageBlock("Errors found while reading the file (execution continued):", errs)
  \o << ElapsedLine(elapsed_seconds) >>

\* parse_integers: the body of the for loop, on the next physical line.
ParseIntegers ==
  /\ pc = "parse_integers"
  /\ line_number < Len(file)
  /\ LET r == parse_integers_step(values, errors, line_number + 1,
                                  file[line_number + 1])
     IN  /\ values' = r.values
         /\ errors' = r.errors
  /\ line_number' = line_number + 1
  /\ UNCHANGED <<Input, pc, elapsed, StatsLocals, freq, idx, WordLocals,
                 report, exception>>

\* parse_integers returns; main takes the time and builds the report.
ReportConversion ==
  /\ pc = "parse_integers"
  /\ line_number = Len(file)
  /\ \E e \in ElapsedChoices :
       /\ elapsed' = e
       /\ report' = build_report_conversion(values, errors, e)
  /\ pc' = "done"
  /\ UNCHANGED <<Input, line_number, values, errors, StatsLocals, freq, idx,
                 WordLocals, exception>>

Conversion ==
  \/ ParseIntegers
  \/ ReportConversion

(***************************************************************************)
(* P3: wordCount.py                                                        *)
(***************************************************************************)
\* The characters normalize_word strips from both ends of a token.
Punctuation ==
  {".", ",", ";", ":", "!", "?", "\"", "'", "(", ")", "[", "]", "{", "}"}

\* normalize_word that lowercases and strips nothing.
normalize_word_unstripped(token) == Lower(token)

\* normalize_word(token).
normalize_word(token) == Lower(Strip(token, Punctuation))

\* read_words, one pass of the for loop on token.
read_words_step(ws, token) ==
  LET word == normalize_word(token)
  IN  IF word # <<>> THEN Append(ws, word) ELSE ws

\* count_frequencies_step that stores 1 instead of adding 1.
count_frequencies_step_reset(fr, word) == DictSet(fr, word, 1)

\* count_frequencies, one pass of the for loop:
\* freq[word] = freq.get(word, 0) + 1.
count_frequencies_step(fr, word) == DictSet(fr, word, DictGet(fr, word, 0) + 1)

RECURSIVE StrLess(_, _)
\* a < b on str: by code point, a proper prefix first.
StrLess(a, b) ==
  IF b = <<>> THEN FALSE
  ELSE IF a = <<>> THEN TRUE
  ELSE IF Head(a) = Head(b) THEN StrLess(Tail(a), Tail(b))
  ELSE Ord(Head(a)) < Ord(Head(b))

RECURSIVE SortedKeys(_)
\* sorted(freq.keys()): the keys are distinct and < is total on them, so the
\* result is the one ascending arrangement, whatever the algorithm.
SortedKeys(keys) ==
  IF keys = {} THEN <<>>
  ELSE LET least == CHOOSE x \in keys : \A y \in keys \ {x} : StrLess(x, y)
       IN  <<least>> \o SortedKeys(keys \ {least})

\* build_report of P3: the lines of the report.
build_report_words(fr, msgs, elapsed_seconds) ==
  LET keys == SortedKeys(DOMAIN fr)
  IN  << Plain("WORD COUNT RESULTS"),
         Plain("------------------"),
         Line("DISTINCT WORDS: {len(freq)}", <<Cardinality(DOMAIN fr)>>),
         Plain("") >>
      \o (IF keys = <<>> THEN <<>>
          ELSE [k \in 1..Len(keys) |->
                  Line("{word}: {freq[word]}", <<keys[k], fr[keys[k]]>>)])
      \o << Plain("") >>
      \o MessageBlock("Messages while reading the file (execution continued):", msgs)
      \o << ElapsedLine(elapsed_seconds) >>

\* read_words up to its for loop: the text is read and split, or the
\* function returns at once with one message.
ReadWords ==
  /\ pc = "read_words"
  /\ IF ~decodable
       THEN /\ errors' = Append(errors,
                  Plain("File encoding error: could not read as UTF-8."))
            /\ pc' = "count_frequencies"
            /\ UNCHANGED tokens
       ELSE LET split == Split(Concat(file))
            IN  IF split = <<>>
                  THEN /\ errors' = Append(errors,
                             Plain("Warning: file contained no readable tokens."))
                       /\ pc' = "count_frequencies"
                       /\ UNCHANGED tokens
                  ELSE /\ tokens' = split
                       /\ pc' = "normalize"
                       /\ UNCHANGED errors
  /\ idx' = 0
  /\ UNCHANGED <<Input, line_number, values, elapsed, StatsLocals, freq, words,
                 report, exception>>

\* read_words: the body of the for loop, on the next token.
NormalizeToken ==
  /\ pc = "normalize"
  /\ idx < Len(tokens)
  /\ words' = read_words_step(words, tokens[idx + 1])
  /\ idx' = idx + 1
  /\ UNCHANGED <<Input, pc, line_number, values, errors, elapsed, StatsLocals,
                 freq, tokens, report, exception>>

\* read_words returns; main calls count_frequencies, on an empty dict.
ReadWordsReturn ==
  /\ pc = "normalize"
  /\ idx = Len(tokens)
  /\ pc' = "count_frequencies"
  /\ idx' = 0
  /\ UNCHANGED <<Input, line_number, values, errors, elapsed, StatsLocals,
                 freq, WordLocals, report, exception>>

\* count_frequencies: the body of the for loop, on the next word.
CountFrequencies ==
  /\ pc = "count_frequencies"
  /\ idx < Len(words)
  /\ freq' = count_frequencies_step(freq, words[idx + 1])
  /\ idx' = idx + 1
  /\ UNCHANGED <<Input, pc, line_number, values, errors, elapsed, StatsLocals,
                 WordLocals, report, exception>>

\* count_frequencies returns; main takes the time and builds the report.
ReportWords ==
  /\ pc = "count_frequencies"
  /\ idx = Len(words)
  /\ \E e \in ElapsedChoices :
       /\ elapsed' = e
       /\ report' = build_report_words(freq, errors, e)
  /\ pc' = "done"
  /\ UNCHANGED <<Input, line_number, values, errors, StatsLocals, freq, idx,
                 WordLocals, exception>>

WordCount ==
  \/ ReadWords
  \/ NormalizeToken
  \/ ReadWordsReturn
  \/ CountFrequencies
  \/ ReportWords

(***************************************************************************)
(* The two parsers as functions of the whole file.                         *)
(***************************************************************************)
RECURSIVE ParseNumbersFrom(_, _, _)
\* parse_numbers: the for loop from physical line n on, acc = [values, errors].
ParseNumbersFrom(lines, n, acc) ==
  IF n > Len(lines) THEN acc
  ELSE ParseNumbersFrom(lines, n + 1,
         parse_numbers_step(acc.values, acc.errors, n, lines[n]))

\* parse_numbers(file_path) on the lines of the file.
parse_numbers(lines) ==
  ParseNumbersFrom(lines, 1, [values |-> <<>>, errors |-> <<>>])

RECURSIVE ParseIntegersFrom(_, _, _)
\* parse_integers: the for loop from physical line n on.
ParseIntegersFrom(lines, n, acc) ==
  IF n > Len(lines) THEN acc
  ELSE ParseIntegersFrom(lines, n + 1,
         parse_integers_step(acc.values, acc.errors, n, lines[n]))

\* parse_integers(file_path) on the lines of the file.
parse_integers(lines) ==
  ParseIntegersFrom(lines, 1, [values |-> <<>>, errors |-> <<>>])

(***************************************************************************)
(* The specification: one run of one of the three programs.                *)
(***************************************************************************)
Next ==
  \/ Statistics
  \/ Conversion
  \/ WordCount

Spec == Init /\ [][Next]_vars

(***************************************************************************)
(* Properties.                                                             *)
(***************************************************************************)
\* In one of the two parsers, or where it has just returned to.
Parsing ==
  \/ prog = "computeStatistics" /\ pc \in {"parse_numbers", "build_report"}
  \/ prog = "convertNumbers" /\ pc \in {"parse_integers", "done"}

\* Whether the parser of program p accepts the physical line raw.
Accepted(p, raw) ==
  LET text == Strip(raw, Whitespace)
  IN  IF p = "computeStatistics" THEN ParseFloat(text, 0).ok
      ELSE ParseInt(text).ok

\* The accepted ones of the first n physical lines.
AcceptedLines(n) == {k \in 1..n : Accepted(prog, file[k])}

\* The j-th smallest element of a set of numbers.
Nth(S, j) == CHOOSE k \in S : Cardinality({i \in S : i <= k}) = j

\* The example file of the specification: 10, bad, 20, an empty line, 30.
ExampleLines ==
  << <<"1", "0", "\n">>, <<"b", "a", "d", "\n">>, <<"2", "0", "\n">>,
     <<"\n">>, <<"3", "0", "\n">> >>

\* The example file gives the values 10, 20, 30 and two messages.
ExampleParsed ==
  /\ parse_numbers(ExampleLines).values = <<FromInt(10), FromInt(20), FromInt(30)>>
  /\ Len(parse_numbers(ExampleLines).errors) = 2
  /\ parse_integers(ExampleLines).values = <<10, 20, 30>>
  /\ Len(parse_integers(ExampleLines).errors) = 2

\* C1: every physical line read so far gave exactly one value or exactly one
\* message, the parser stops only at the end of the file, and the values are
\* the accepted lines, in the order of the file.
C1_EveryLineOneOutcome ==
  /\ Parsing =>
       LET accepted == AcceptedLines(line_number)
       IN  /\ Len(values) + Len(errors) = line_number
           /\ pc \notin {"parse_numbers", "parse_integers"} => line_number = Len(file)
           /\ Len(values) = Cardinality(accepted)
           /\ \A j \in 1..Len(values) :
                LET k == Nth(accepted, j)
                    text == Strip(file[k], Whitespace)
                IN  values[j] = IF prog = "computeStatistics"
                                  THEN ParseFloat(text, k).val
                                  ELSE ParseInt(text).val
  /\ ExampleParsed

\* C1's case: a finished parse with a rejected line before an accepted one.
C1_Witness ==
  /\ prog = "computeStatistics"
  /\ pc = "build_report"
  /\ Len(values) >= 2
  /\ Len(errors) >= 2
  /\ \E k \in 1..Len(file) - 1 :
       ~Accepted(prog, file[k]) /\ Accepted(prog, file[k + 1])

\* How often v is among vals (as a dict key: the same object, or equal).
Occurrences(vals, v) == Cardinality({i \in 1..Len(vals) : vals[i] = v})

AllDistinct(vals) == \A k \in 1..Len(vals) : Occurrences(vals, vals[k]) = 1

\* The first position of vals that holds a most frequent value.
FirstMostFrequent(vals) ==
  CHOOSE k \in 1..Len(vals) :
    /\ \A i \in 1..Len(vals) : Occurrences(vals, vals[i]) <= Occurrences(vals, vals[k])
    /\ \A i \in 1..(k - 1) : Occurrences(vals, vals[i]) < Occurrences(vals, vals[k])

\* Where mode(values) has just returned.
ModeComputed == prog = "computeStatistics" /\ pc = "variance"

\* C2: mode gives no value when all values are distinct, and else exactly
\* one: the most frequent value that occurs first in the input.
C2_ModeFirstOccurrence ==
  ModeComputed =>
    IF AllDistinct(values) THEN modes = <<>>
    ELSE modes = <<values[FirstMostFrequent(values)]>>

\* C2's case: the values 3, 1, 3, 1, where 3 and 1 tie and 3 is reported.
C2_Witness ==
  /\ ModeComputed
  /\ values = <<FromInt(3), FromInt(1), FromInt(3), FromInt(1)>>
  /\ modes = <<FromInt(3)>>

\* The digit a character stands for, 16 when it is no digit.
DigitOf(c) ==
  IF \E k \in 1..16 : HEX_DIGITS[k] = c
    THEN (CHOOSE k \in 1..16 : HEX_DIGITS[k] = c) - 1
    ELSE 16

RECURSIVE LiteralValue(_, _, _)
\* The value of the digits s in base, most significant first.
LiteralValue(s, base, acc) ==
  IF s = <<>> THEN acc
  ELSE LiteralValue(Tail(s), base, base * acc + DigitOf(Head(s)))

\* Whether s is a signed literal of base in canonical form: an optional
\* "-", then digits of the base, no leading zero, and no "-0".
Canonical(s, base) ==
  LET body == IF s # <<>> /\ Head(s) = "-" THEN Tail(s) ELSE s
  IN  /\ body # <<>>
      /\ \A k \in 1..Len(body) : DigitOf(body[k]) < base
      /\ Len(body) > 1 => body[1] # "0"
      /\ body = <<"0">> => s = body

\* s read back as a signed literal of base.
ReadBack(s, base) ==
  IF Head(s) = "-" THEN -LiteralValue(Tail(s), base, 0)
  ELSE LiteralValue(s, base, 0)

RoundTrip(n, base) ==
  LET s == to_base(n, base)
  IN  /\ Canonical(s, base)
      /\ ReadBack(s, base) = n
      /\ (Head(s) = "-") = (n < 0)

\* Some integers of large magnitude, up to 2^31 - 1.
LargeMagnitudes ==
  {4095, -4096, 65535, -65536, 1000000, -16777215, 2147483647, -2147483647}

\* The round trip on every integer of -MaxAbs .. MaxAbs and on the large
\* ones, and the results the specification names.
RoundTripInRange ==
  /\ \A n \in (-MaxAbs)..MaxAbs : RoundTrip(n, 2) /\ RoundTrip(n, 16)
  /\ \A n \in LargeMagnitudes : RoundTrip(n, 2) /\ RoundTrip(n, 16)
  /\ to_base(0, 2) = <<"0">>
  /\ to_base(0, 16) = <<"0">>
  /\ to_base(-255, 16) = <<"-", "F", "F">>
  /\ RoundTrip(-255, 2) /\ RoundTrip(-255, 16)

ConversionDone == prog = "convertNumbers" /\ pc = "done"

\* C3: to_base(n, 2) and to_base(n, 16) read back as signed literals give n,
\* for the converted values of every report and for every n of
\* -MaxAbs .. MaxAbs; the results are canonical; 0 is "0", -255 is "-FF".
C3_ToBaseRoundTrip ==
  /\ RoundTripInRange
  /\ ConversionDone =>
    \A k \in 1..Len(values) :
         LET line == report[4 + k]
         IN  /\ line.args[1] = values[k]
             /\ line.args[2] = to_base(values[k], 2)
             /\ line.args[3] = to_base(values[k], 16)
             /\ ReadBack(line.args[2], 2) = values[k]
             /\ ReadBack(line.args[3], 16) = values[k]
             /\ Canonical(line.args[2], 2)
             /\ Canonical(line.args[3], 16)

\* C3's case: a report that converts a negative value, zero and a positive one.
C3_Witness ==
  /\ ConversionDone
  /\ \E i, j, k \in 1..Len(values) : values[i] < 0 /\ values[j] = 0 /\ values[k] > 0

OnlyOf(token, chars) == \A k \in 1..Len(token) : token[k] \in chars

Dashes == <<"-", "-", "-">>

WordsRead == prog = "wordCount" /\ pc \in {"count_frequencies", "done"} /\ tokens # <<>>

\* C4, as claimed: a token of punctuation only, "---" among them,
\* contributes no word and no entry of the frequency table.
C4_PunctuationOnlyDropped ==
  WordsRead =>
    /\ \A k \in 1..Len(words) : ~OnlyOf(words[k], Punctuation \cup {"-"})
    /\ Dashes \notin DOMAIN freq

\* C4, amended: a token made only of the characters . , ; : ! ? " ' ( ) [ ]
\* { } contributes no word, no message and no entry of the frequency table;
\* every other token contributes exactly one word, and the token "---" (the
\* hyphen is not one of these characters) contributes the word "---".
C4_StrippedOnlyDropped ==
  WordsRead =>
    /\ Len(words) = Cardinality({k \in 1..Len(tokens) : ~OnlyOf(tokens[k], Punctuation)})
    /\ \A k \in 1..Len(words) : ~OnlyOf(words[k], Punctuation)
    /\ \A w \in DOMAIN freq : ~OnlyOf(w, Punctuation)
    /\ errors = <<>>
    /\ \A k \in 1..Len(tokens) :
         tokens[k] = Dashes => \E j \in 1..Len(words) : words[j] = Dashes
    /\ (pc = "done" /\ \E k \in 1..Len(tokens) : tokens[k] = Dashes)
         => Dashes \in DOMAIN freq /\ freq[Dashes] >= 1

\* C4's case: a finished run whose tokens hold "(?)" and "---".
C4_Witness ==
  /\ WordsRead
  /\ pc = "done"
  /\ \E k \in 1..Len(tokens) : tokens[k] = <<"(", "?", ")">>
  /\ \E k \in 1..Len(tokens) : tokens[k] = Dashes
  /\ Len(words) < Len(tokens)

\* The headers of the optional block of the three reports.
BlockHeaders ==
  { "Errors found while reading the file:",
    "Errors found while reading the file (execution continued):",
    "Messages while reading the file (execution continued):" }

HasBlockHeader == \E k \in 1..Len(report) : report[k].text \in BlockHeaders

SameLine(a, b) == a.text = b.text /\ a.args = b.args

\* C5: in every report the block of errors/messages, header and message
\* lines, is there if and only if there is at least one error/message.
C5_BlockIffMessages ==
  pc = "done" =>
    /\ HasBlockHeader <=> errors # <<>>
    /\ \A j \in 1..Len(errors) :
         \E k \in 1..Len(report) : SameLine(report[k], errors[j])

RECURSIVE Product(_)
Product(ns) == IF ns = <<>> THEN 1 ELSE Head(ns) * Product(Tail(ns))

RECURSIVE SumOver(_, _)
\* The sum of f over the set S of its arguments.
SumOver(f, S) ==
  IF S = {} THEN 0
  ELSE LET k == CHOOSE k \in S : TRUE IN f[k] + SumOver(f, S \ {k})

HasNaN(vals) == \E k \in 1..Len(vals) : IsNaN(vals[k])

\* Whether v is the sum of the squared deviations of vals from m divided by
\* divisor, worked out in integers over a common denominator.
IsSumOfSquaresOver(v, vals, m, divisor) ==
  LET common == m.den * Product([k \in 1..Len(vals) |-> vals[k].den])
      dev == [k \in 1..Len(vals) |->
                vals[k].num * (common \div vals[k].den) - m.num * (common \div m.den)]
      squares == SumOver([k \in 1..Len(vals) |-> dev[k] * dev[k]], 1..Len(vals))
  IN  /\ ~IsNaN(v)
      /\ v.den > 0
      /\ v.num * divisor * common * common = squares * v.den

\* Where population_variance has returned.
VarianceComputed ==
  prog = "computeStatistics" /\ pc \in {"std_dev", "done"} /\ values # <<>>

\* The variances the specification works out, and those of short lists.
ExampleVariances ==
  /\ population_variance(<<FromInt(2), FromInt(4)>>, FromInt(3)) = FromInt(2)
  /\ population_variance(<<FromInt(10), FromInt(20), FromInt(30)>>, FromInt(20))
       = FromInt(100)
  /\ population_variance(<<FromInt(7)>>, FromInt(7)) = Zero
  /\ population_variance(<<>>, Zero) = Zero

\* C6: population_variance is the sum of the squared deviations from the
\* given mean divided by count - 1 for two values or more (a NaN when a
\* value is one), exactly 0 below two values, and never below zero, so that
\* population_std_dev never raises.
C6_VarianceSample ==
  /\ VarianceComputed =>
       /\ Len(values) < 2 => variance_value = Zero
       /\ (Len(values) >= 2 /\ HasNaN(values)) => IsNaN(variance_value)
       /\ (Len(values) >= 2 /\ ~HasNaN(values)) =>
            IsSumOfSquaresOver(variance_value, values, mean_value, Len(values) - 1)
       /\ ~FLess(variance_value, Zero)
       /\ population_std_dev(variance_value).ok
       /\ pc = "done" => std_value.ok /\ std_value.radicand = variance_value
  /\ exception # "ValueError"
  /\ ExampleVariances

\* C6's case: the variance of three or more numbers that are not all equal.
C6_Witness ==
  /\ VarianceComputed
  /\ pc = "done"
  /\ Len(values) >= 3
  /\ ~HasNaN(values)
  /\ FLess(Zero, variance_value)
  /\ std_value.radicand = variance_value

\* vals with the elements at i and j exchanged.
Swap(vals, i, j) ==
  [k \in 1..Len(vals) |-> IF k = i THEN vals[j] ELSE IF k = j THEN vals[i] ELSE vals[k]]

\* Whether x is at rank r (1 is the smallest) among vals in ascending order.
AtRank(x, vals, r) ==
  /\ \E k \in 1..Len(vals) : vals[k] = x
  /\ Cardinality({k \in 1..Len(vals) : FLess(vals[k], x)}) < r
  /\ Cardinality({k \in 1..Len(vals) : ~FLess(x, vals[k])}) >= r

\* Whether m is the median of vals: the middle element in ascending order
\* for an odd count, the mean of the two middle ones for an even count (a
\* NaN when one of the two is a NaN).
IsMiddle(m, vals) ==
  LET n == Len(vals)
  IN  IF n % 2 = 1 THEN AtRank(m, vals, (n + 1) \div 2)
      ELSE \E a, b \in {vals[k] : k \in 1..n} :
             /\ AtRank(a, vals, n \div 2)
             /\ AtRank(b, vals, (n \div 2) + 1)
             /\ IF IsNaN(a) \/ IsNaN(b) THEN IsNaN(m)
                ELSE /\ ~IsNaN(m)
                     /\ m.num * 2 * a.den * b.den
                          = (a.num * b.den + b.num * a.den) * m.den

\* Exchanging two elements does not change the median (a NaN is the same
\* result as a NaN); every permutation is a chain of such exchanges.
OrderIndependent(m, vals) ==
  \A i \in 1..Len(vals) : \A j \in (i + 1)..Len(vals) :
    LET other == median(Swap(vals, i, j))
    IN  IF IsNaN(m) THEN IsNaN(other) ELSE other = m

\* Where median(values) has just returned.
MedianComputed == prog = "computeStatistics" /\ pc = "mode" /\ idx = 0

\* C7, as claimed: for every non-empty list of values the median is the
\* middle of the ascending values, is the same for every order of the input,
\* and the call leaves the caller's list as it was.
C7_MedianEveryInput ==
  MedianComputed =>
    /\ values = parse_numbers(file).values
    /\ OrderIndependent(median_value, values)
    /\ IsMiddle(median_value, values)

\* C7, amended: the same for every non-empty list of values that holds no
\* NaN; the call leaves every list as it was, a NaN in it or not.
C7_MedianWithoutNaN ==
  MedianComputed =>
    /\ values = parse_numbers(file).values
    /\ ~HasNaN(values) =>
         /\ OrderIndependent(median_value, values)
         /\ IsMiddle(median_value, values)

\* C7's case: the median of four numbers that are not in ascending order.
C7_Witness ==
  /\ MedianComputed
  /\ Len(values) = 4
  /\ ~HasNaN(values)
  /\ FLess(values[2], values[1])
  /\ FLess(values[3], values[4])
  /\ median_value = FromInt(2)

NoMetricComputed ==
  /\ mean_value = Unset
  /\ median_value = Unset
  /\ variance_value = Unset
  /\ modes = <<>>
  /\ freq = <<>>

\* C8: the statistics build_report calls mean, median, mode and variance on
\* non-empty lists only; with no valid value it returns the report that
\* starts "No valid numeric data found" and ends in the elapsed-time line;
\* no run ends in an exception.
C8_NoMetricOnEmpty ==
  /\ pc # "crashed"
  /\ exception = ""
  /\ (prog = "computeStatistics" /\ pc \in {"median", "mode", "variance", "std_dev"})
       => values # <<>>
  /\ (prog = "computeStatistics" /\ pc = "done" /\ values = <<>>) =>
       /\ NoMetricComputed
       /\ report[1] = Plain("No valid numeric data found. Cannot compute statistics.")
       /\ SameLine(report[Len(report)], ElapsedLine(elapsed))
  /\ (prog = "computeStatistics" /\ pc = "done" /\ values # <<>>) =>
       /\ report[1] = Plain("DESCRIPTIVE STATISTICS (POPULATION)")
       /\ SameLine(report[Len(report)], ElapsedLine(elapsed))

\* C8's case: a file all of whose lines are rejected, and its report.
C8_Witness ==
  /\ prog = "computeStatistics"
  /\ pc = "done"
  /\ values = <<>>
  /\ Len(errors) >= 2
  /\ \E k \in 1..Len(errors) : errors[k].text = "Line {line_number}: empty line (skipped)."
  /\ \E k \in 1..Len(errors) : errors[k].text # "Line {line_number}: empty line (skipped)."

\* C9: the line numbers of the messages are those of the rejected physical
\* lines, counted from 1, strictly increasing in the order of the messages:
\* none twice, none out of order, none missing.
C9_LineNumbersIncreasing ==
  Parsing =>
    /\ \A j \in 1..Len(errors) :
         /\ errors[j].args[1] \in 1..line_number
         /\ ~Accepted(prog, file[errors[j].args[1]])
    /\ \A i, j \in 1..Len(errors) : i < j => errors[i].args[1] < errors[j].args[1]
    /\ Len(errors) = Cardinality({k \in 1..line_number : ~Accepted(prog, file[k])})

\* C9's case: three messages, the first of them for line 1.
C9_Witness ==
  /\ prog = "convertNumbers"
  /\ pc = "done"
  /\ Len(errors) >= 3
  /\ errors[1].args[1] = 1
  /\ values # <<>>

\* The elements the running loop has consumed.
Consumed == IF prog = "wordCount" THEN SubSeq(words, 1, idx) ELSE SubSeq(values, 1, idx)

Counting ==
  \/ prog = "computeStatistics" /\ pc \in {"mode", "variance", "std_dev", "done"}
       /\ values # <<>>
  \/ prog = "wordCount" /\ pc \in {"count_frequencies", "done"}

\* C10: after every pass of the counting loop of count_frequencies and of
\* mode, the keys are the elements consumed, every count is at least 1 (it
\* is the number of times the key was consumed), and the counts sum to the
\* number of elements consumed; at the end that is the number of words
\* read_words accepted.
C10_CountsSumToConsumed ==
  Counting =>
    /\ DOMAIN freq = {Consumed[k] : k \in 1..idx}
    /\ \A key \in DOMAIN freq : freq[key] >= 1 /\ freq[key] = Occurrences(Consumed, key)
    /\ SumOver(freq, DOMAIN freq) = idx
    /\ pc = "done" =>
         idx = Len(IF prog = "wordCount" THEN words ELSE values)
    /\ (pc = "done" /\ prog = "wordCount") =>
         SumOver(freq, DOMAIN freq)
           = Cardinality({k \in 1..Len(tokens) : normalize_word(tokens[k]) # <<>>})

\* C10's case: the word loop under way, a word already counted twice.
C10_Witness ==
  /\ prog = "wordCount"
  /\ pc = "count_frequencies"
  /\ idx > 0
  /\ idx < Len(words)
  /\ \E key \in DOMAIN freq : freq[key] >= 2
  /\ Cardinality(DOMAIN freq) >= 2

=============================================================================
